---- MODULE Spec2Model ----
(***************************************************************************)
(* Top-holders tracker bot (src/index.js, and its variant src/main.js):    *)
(* the balance-change ingestion pipeline and the alert formatter, the      *)
(* subscriber store, the setup flow (fetch-holders, create-webhooks), the  *)
(* paginated webhook enumeration and the pause/resume reconciliation of    *)
(* remote webhooks with the local mirror table.                            *)
(*                                                                         *)
(* A handler is cut into steps at its await points (outbound fetch, store  *)
(* statement, timer); pc names the await the handler is suspended on.      *)
(* Every specification but SpecOverlap runs one request at a time;         *)
(* SpecOverlap runs a pause and a resume that take turns at their awaits.  *)
(* The store is taken to be available: every sql statement succeeds.  An   *)
(* outbound fetch answers 2xx, answers non-2xx, or rejects (network        *)
(* failure).                                                               *)
(***************************************************************************)
EXTENDS Integers, Sequences, FiniteSets, TLC

\* ------------------------------------------------------------ bounds
\* Longest /balances batch.
MaxBatch == 2
\* Transaction hashes are 1..NumHashes.
NumHashes == 2
\* Telegram chat ids are 1..NumChats.
NumChats == 2
\* Subscribe commands handled (each reads the clock once).
MaxClock == 2

\* The formatter is called with USD values up to this far from a tier edge.
Around == 1

\* Longest tokens.csv.
MaxTokens == 2
\* Remote webhooks the create-webhooks runs may add up to.
MaxCreated == 3

\* Webhook ids an unreliable registry draws its pages from, and the largest
\* registry of the pause/resume runs, are 1..NumIds.
NumIds == 3
\* Page size of the listing (const limit, src/index.js:451, is 300): the
\* walk depends on it only through "full page" against "short page", so the
\* model runs it with a small page.
limit == 2

\* ------------------------------------------------- program constants
\* src/index.js:302  if (change.value_delta_usd < 100) continue;
Threshold == 100
\* src/index.js:452  const maxIterations = 50; // Safety limit
maxIterations == 50
\* src/index.js:385-388  the lower bounds of the emoji tiers
TierFive == 10000000
TierFour == 1000000
TierThree == 500000
TierTwo == 100000
\* src/index.js:376  const decimals = change.asset?.decimals || 18
DefaultDecimals == 18

VARIABLES
  pc,             \* await point of the request in flight, "idle" when none
  req,            \* kind of the request in flight or last handled
  resp,           \* response of the last handled request
  subscribers,    \* subscribers table: rows {chat_id, subscribed_at} in
                  \* insertion order
  clock,          \* instants read by new Date() so far
  balanceChanges, \* body.balance_changes of the /balances request
  i,              \* position of the for-of loop over balanceChanges
  processedTxs,   \* the Set of seen transaction hashes
  subs,           \* result of getAllSubscribers() inside one broadcast
  j,              \* position of the for-of loop over subs
  chat,           \* chat id of the Telegram update being handled
  alerts,         \* history: batch positions handed to broadcastToSubscribers
  sends,          \* history: sendTelegramMessage calls of the batch
  sendFailed,     \* history: some send of the batch answered non-2xx
  raised,         \* history: what threw out of the handler: "none", "send"
                  \* (a rejected fetch) or "format" (formatBalanceMessage)
  mode,           \* how the remote registry answers a page request
  registry,       \* remote registry: webhooks {id, active} in listing order
  allWebhooks,    \* listAllWebhooks: the result array
  seenIds,        \* listAllWebhooks: the Set of ids
  offset,         \* listAllWebhooks: let offset
  iterations,     \* listAllWebhooks: let iterations
  hitMax,         \* the "Hit max iterations" warning was raised
  listStatus,     \* "none", "running", "returned" or "thrown"
  failure,        \* history: transport failure met by the walk, or "none"
  requests,       \* history: page requests issued by the walk
  served,         \* history: webhooks the registry served in some page
  firstSeen,      \* history: ids in the order pages first showed them
  mirror,         \* webhooks table: id -> active (0 or 1), for the rows held
  k,              \* position of the for-of loop over allWebhooks
  changed,        \* let paused / let resumed
  skipped,        \* let skipped
  failed,         \* let failed
  patches,        \* history: ids of the PATCH requests issued by the run
  succeeded,      \* history: ids whose PATCH answered 2xx in the run
  clean,          \* history: every remote call of the run answered 2xx
  touchedRemote,  \* history: the run changed an active flag of the registry
  touchedMirror,  \* history: the run changed an active flag of the mirror
  prev,           \* history: the pause/resume run handled just before
  localWebhooks,  \* resume-local-webhooks: rows of SELECT id FROM webhooks
  allClean,       \* history: every run so far answered with failed = 0 over
                  \* a complete enumeration
  fmtChange,      \* formatBalanceMessage: the change it is called with
  message,        \* formatBalanceMessage: what the call produced
  fmtBefore,      \* history: the usd value and emoji count of the call before
  entry,          \* the server file that runs: "index.js" or "main.js"
  tokens,         \* the records of tokens.csv
  topHolders,     \* top_holders table: <<token_address, chain_id>> -> holders
  mirrorKey,      \* webhooks table: id -> <<token_address, chain_id>>
  remoteKey,      \* registry: id -> <<token_address, chain_id>> of the
                  \* webhooks created through createWebhook
  tk,             \* fetchAllTopHolders: position of the for-of loop over tokens
  holderRequests, \* history: holder requests of the run, {token, chainId}
  totalHolders,   \* fetchAllTopHolders: let totalHolders
  holderRows,     \* createWebhooksForTopHolders: rows of SELECT * FROM top_holders
  rw,             \* createWebhooksForTopHolders: position of the loop over rows
  webhookIds,     \* createWebhooksForTopHolders: const webhookIds
  earlier,        \* history: transaction hashes seen by the batches handled
                  \* before (recorded by the specification of successive
                  \* batches)
  env,            \* names of the environment variables that are set
  process,        \* "loading" (module top level), "serving" or "exited"
  parked          \* the frame of a second handler, suspended or dispatched,
                  \* while the handler above runs; the idle frame when none

ingestVars == <<balanceChanges, i, processedTxs, subs, j, alerts, sends,
               sendFailed, raised>>
remoteVars == <<mode, registry>>
listVars == <<allWebhooks, seenIds, offset, iterations, hitMax, listStatus,
              failure, requests, served, firstSeen>>
runVars == <<k, changed, skipped, failed, patches, succeeded, clean,
             touchedRemote, touchedMirror>>
\* everything the /setup endpoints work on
scopeVars == <<localWebhooks, allClean>>
setupVars == <<remoteVars, listVars, mirror, runVars, prev, scopeVars>>
\* the request handlers
serverVars == <<pc, req, resp, subscribers, clock, chat, ingestVars, setupVars>>
formatVars == <<fmtChange, message, fmtBefore>>
\* what the request handlers modelled above leave alone
provisionTables == <<entry, tokens, topHolders, mirrorKey, remoteKey>>
provisionLocals == <<tk, holderRequests, totalHolders, holderRows, rw, webhookIds>>
\* history kept across requests
batchVars == <<earlier>>
\* the process and its environment
startVars == <<env, process>>
\* a second request in flight
overlapVars == <<parked>>
restVars == <<batchVars, startVars, overlapVars>>
otherVars == <<formatVars, provisionTables, provisionLocals, restVars>>
vars == <<serverVars, otherVars>>

\* ------------------------------------------------------------ inputs
Hashes == 1..NumHashes
Chats == 1..NumChats
\* value_delta_usd around the threshold
UsdValues == {Threshold - 1, Threshold, Threshold + 1}
\* A balance change: hasUsd is whether value_delta_usd is present in the
\* payload; usd is the value formatBalanceMessage reads
\* (change.value_delta_usd || 0); hasAddr is whether subscribed_address is
\* present.
Changes ==
  [hash : Hashes, hasUsd : {TRUE}, usd : UsdValues, hasAddr : {TRUE}]
    \cup [hash : Hashes, hasUsd : {FALSE}, usd : {0}, hasAddr : {TRUE}]
    \cup [hash : Hashes, hasUsd : {TRUE}, usd : {Threshold}, hasAddr : {FALSE}]
RECURSIVE SeqsUpTo(_, _)
SeqsUpTo(S, n) ==
  IF n = 0 THEN {<<>>}
  ELSE LET shorter == SeqsUpTo(S, n - 1)
       IN shorter \cup {Append(s, x) : s \in {t \in shorter : Len(t) = n - 1}, x \in S}
Batches == SeqsUpTo(Changes, MaxBatch)
\* fetch(): a 2xx answer, a non-2xx answer, or a rejected promise
FetchOutcomes == {"ok", "notOk", "reject"}

NoResp == [status |-> 0, processed |-> 0]
\* The async handler rejected outside any try/catch: the handler wrote no
\* response.
Unhandled == [status |-> -1, processed |-> 0]

\* ------------------------------------------------ /balances pipeline
\* src/index.js:298  processedTxs.has(change.transaction_hash)
IsDuplicateNever(seen, change) == FALSE
IsDuplicate(seen, change) == change.hash \in seen

\* src/index.js:299  processedTxs.add(change.transaction_hash)
SeenAfterMaterialOnly(seen, change) ==
  IF change.hasUsd /\ change.usd < Threshold THEN seen ELSE seen \cup {change.hash}
SeenAfter(seen, change) == seen \cup {change.hash}

\* src/index.js:302  change.value_delta_usd < 100 (undefined < 100 is false)
BelowThresholdInclusive(change) == change.hasUsd /\ change.usd <= Threshold
BelowThreshold(change) == change.hasUsd /\ change.usd < Threshold

\* src/index.js:394-395  holder = change.subscribed_address; holder.slice(0, 6)
\* throws a TypeError when the field is missing.
FormatThrows(change) == ~change.hasAddr

\* -------------------------------------------------- formatBalanceMessage
\* src/index.js:374  const usdValue = change.value_delta_usd || 0
UsdValueOf(change) == IF change.hasUsd THEN change.usd ELSE 0

\* src/index.js:384-388  let emojiCount = 1; if (usdValue >= 10_000_000) ...
EmojiCountExclusive(usdValue) ==
  IF usdValue > TierFive THEN 5
  ELSE IF usdValue > TierFour THEN 4
  ELSE IF usdValue > TierThree THEN 3
  ELSE IF usdValue > TierTwo THEN 2
  ELSE 1
EmojiCount(usdValue) ==
  IF usdValue >= TierFive THEN 5
  ELSE IF usdValue >= TierFour THEN 4
  ELSE IF usdValue >= TierThree THEN 3
  ELSE IF usdValue >= TierTwo THEN 2
  ELSE 1

\* src/index.js:376  change.asset?.decimals || 18: a decimals of 0 is falsy
\* and gives 18 as well.
DecimalsOf(change) ==
  IF change.hasDecimals /\ change.decimals # 0 THEN change.decimals
  ELSE DefaultDecimals

\* The number mantissa / 10^exponent, in lowest terms of the exponent:
\* rawAmount / Math.pow(10, decimals) of lines 380-381, in exact arithmetic.
RECURSIVE Scaled(_, _)
Scaled(mantissa, exponent) ==
  IF exponent > 0 /\ mantissa % 10 = 0
  THEN Scaled(mantissa \div 10, exponent - 1)
  ELSE [mantissa |-> mantissa, exponent |-> exponent]

NoAmount == [mantissa |-> 0, exponent |-> 0]
NoMessage == [status |-> "none", emojiCount |-> 0, amount |-> NoAmount]
\* The message of lines 398-402, or the TypeError of line 395.
formatBalanceMessage(change) ==
  IF FormatThrows(change)
  THEN [status |-> "threw", emojiCount |-> 0, amount |-> NoAmount]
  ELSE [status |-> "ok", emojiCount |-> EmojiCount(UsdValueOf(change)),
        amount |-> Scaled(change.amountDelta, DecimalsOf(change))]

\* USD values at and around the tier edges, and small ones.
FormatUsd ==
  {0, Threshold}
    \cup {edge + d : edge \in {TierTwo, TierThree, TierFour, TierFive},
                     d \in (0 - Around)..Around}
\* asset.decimals when the asset carries one: none, few, the usual 18.
DecimalsValues == {0, 2, DefaultDecimals}
\* amount_delta, in units of the token's smallest unit.
AmountDeltas == {25, 1000}
\* What a change says about the token amount: whether asset.decimals is
\* present, its value, and amount_delta.
AmountParts ==
  [hasDecimals : {TRUE}, decimals : DecimalsValues, amountDelta : AmountDeltas]
    \cup [hasDecimals : {FALSE}, decimals : {0}, amountDelta : AmountDeltas]
WithAmount(base, part) ==
  [hash |-> base.hash, hasUsd |-> base.hasUsd, usd |-> base.usd,
   hasAddr |-> base.hasAddr, hasDecimals |-> part.hasDecimals,
   decimals |-> part.decimals, amountDelta |-> part.amountDelta]
\* Changes that vary in what the emoji tiers and the holder need, with a
\* usual amount, and changes at the threshold that vary in the amount.
FormatInputs ==
  {WithAmount(base, [hasDecimals |-> TRUE, decimals |-> DefaultDecimals,
                     amountDelta |-> 1000]) :
     base \in [hash : {1}, hasUsd : {TRUE}, usd : FormatUsd, hasAddr : BOOLEAN]
                \cup [hash : {1}, hasUsd : {FALSE}, usd : {0}, hasAddr : {TRUE}]}
    \cup {WithAmount([hash |-> 1, hasUsd |-> TRUE, usd |-> Threshold,
                      hasAddr |-> TRUE], part) : part \in AmountParts}
NoBefore == [usd |-> -1, emojiCount |-> 0]

\* formatBalanceMessage(change, chainId) runs to its return or its throw:
\* lines 373-403.
FormatCall ==
  /\ message = NoMessage
  /\ message' = formatBalanceMessage(fmtChange)
  /\ UNCHANGED <<serverVars, fmtChange, fmtBefore, provisionTables, provisionLocals,
                 restVars>>

\* The next call, with another change.
FormatAgain ==
  /\ message # NoMessage
  /\ \E change \in FormatInputs : fmtChange' = change
  /\ message' = NoMessage
  /\ fmtBefore' = IF message.status = "ok"
                  THEN [usd |-> UsdValueOf(fmtChange), emojiCount |-> message.emojiCount]
                  ELSE fmtBefore
  /\ UNCHANGED <<serverVars, provisionTables, provisionLocals, restVars>>

\* The formatter is not being exercised on its own.
NoFormat ==
  /\ fmtChange = [hash |-> 1, hasUsd |-> FALSE, usd |-> 0, hasAddr |-> TRUE,
                  hasDecimals |-> FALSE, decimals |-> 0, amountDelta |-> 25]
  /\ message = NoMessage
  /\ fmtBefore = NoBefore

\* The tables as create-webhooks left them for the webhooks with these ids
\* (token address = id, on chain 1), with tokens.csv since emptied.
Provisioned(ids) ==
  /\ entry = "index.js"
  /\ tokens = <<>>
  /\ topHolders = [pair \in {<<id, 1>> : id \in ids} |-> <<TRUE>>]
  /\ mirrorKey = [id \in ids |-> <<id, 1>>]
  /\ remoteKey = [id \in ids |-> <<id, 1>>]

\* The locals of a handler that is not running.
NoLocals ==
  /\ balanceChanges = <<>>
  /\ i = 1
  /\ processedTxs = {}
  /\ subs = <<>>
  /\ j = 1
  /\ chat = 0
  /\ alerts = <<>>
  /\ sends = <<>>
  /\ sendFailed = FALSE
  /\ raised = "none"
  /\ allWebhooks = <<>>
  /\ seenIds = {}
  /\ offset = 0
  /\ iterations = 0
  /\ hitMax = FALSE
  /\ listStatus = "none"
  /\ failure = "none"
  /\ requests = 0
  /\ served = {}
  /\ firstSeen = <<>>
  /\ k = 1
  /\ changed = 0
  /\ skipped = 0
  /\ failed = 0
  /\ patches = <<>>
  /\ succeeded = {}
  /\ clean = TRUE
  /\ touchedRemote = FALSE
  /\ touchedMirror = FALSE
  /\ localWebhooks = <<>>
  /\ tk = 1
  /\ holderRequests = <<>>
  /\ totalHolders = 0
  /\ holderRows = <<>>
  /\ rw = 1
  /\ webhookIds = <<>>

\* No pause/resume run was handled just before.
NoPrev == [kind |-> "none", clean |-> FALSE]

\* A handler's frame: where it is suspended and the values of its locals.
Frame ==
  [pc |-> pc, req |-> req, resp |-> resp, chat |-> chat,
   balanceChanges |-> balanceChanges, i |-> i,
   processedTxs |-> processedTxs, subs |-> subs, j |-> j,
   alerts |-> alerts, sends |-> sends, sendFailed |-> sendFailed,
   raised |-> raised, allWebhooks |-> allWebhooks, seenIds |-> seenIds,
   offset |-> offset, iterations |-> iterations, hitMax |-> hitMax,
   listStatus |-> listStatus, failure |-> failure, requests |-> requests,
   served |-> served, firstSeen |-> firstSeen, k |-> k,
   changed |-> changed, skipped |-> skipped, failed |-> failed,
   patches |-> patches, succeeded |-> succeeded, clean |-> clean,
   touchedRemote |-> touchedRemote, touchedMirror |-> touchedMirror,
   localWebhooks |-> localWebhooks, tk |-> tk,
   holderRequests |-> holderRequests, totalHolders |-> totalHolders,
   holderRows |-> holderRows, rw |-> rw, webhookIds |-> webhookIds]
\* The frame of no handler.
IdleFrame ==
  [pc |-> "idle", req |-> "none", resp |-> NoResp, chat |-> 0,
   balanceChanges |-> <<>>, i |-> 1, processedTxs |-> {}, subs |-> <<>>,
   j |-> 1, alerts |-> <<>>, sends |-> <<>>, sendFailed |-> FALSE,
   raised |-> "none", allWebhooks |-> <<>>, seenIds |-> {}, offset |-> 0,
   iterations |-> 0, hitMax |-> FALSE, listStatus |-> "none",
   failure |-> "none", requests |-> 0, served |-> {}, firstSeen |-> <<>>,
   k |-> 1, changed |-> 0, skipped |-> 0, failed |-> 0, patches |-> <<>>,
   succeeded |-> {}, clean |-> TRUE, touchedRemote |-> FALSE,
   touchedMirror |-> FALSE, localWebhooks |-> <<>>, tk |-> 1,
   holderRequests |-> <<>>, totalHolders |-> 0, holderRows |-> <<>>,
   rw |-> 1, webhookIds |-> <<>>]
\* The frame of a pause-webhooks or resume-webhooks handler that was
\* dispatched and has not taken a step: lines 533-536, 570-573.
Dispatched(kind) ==
  [IdleFrame EXCEPT !.pc = "list_head", !.req = kind, !.listStatus = "running"]

\* No request in flight.
Idle ==
  /\ pc = "idle"
  /\ req = "none"
  /\ resp = NoResp
  /\ NoLocals
  /\ parked = IdleFrame

\* process.env: the variables lines 13-17 read (PORT has a default).
ConfigNames == {"SIM_API_KEY", "TELEGRAM_BOT_TOKEN", "WEBHOOK_BASE_URL", "DATABASE_URL"}

\* src/index.js:19, src/main.js:14
\* if (!SIM_API_KEY || !TELEGRAM_BOT_TOKEN || !DATABASE_URL)
MissingRequired(present) ==
  \/ "SIM_API_KEY" \notin present
  \/ "TELEGRAM_BOT_TOKEN" \notin present
  \/ "DATABASE_URL" \notin present

\* The module's top level runs: the check of the environment, then
\* process.exit(1), or initDatabase and the app taking requests (exported
\* by index.js, app.listen in main.js): src/index.js:13-65,
\* src/main.js:8-59, 570-578.
StartupCheck ==
  /\ process = "loading"
  /\ process' = IF MissingRequired(env) THEN "exited" ELSE "serving"
  /\ UNCHANGED <<serverVars, formatVars, provisionTables, provisionLocals,
                 batchVars, env, overlapVars>>

\* The process passed its startup with a complete environment.
Serving ==
  /\ env = ConfigNames
  /\ process = "serving"

\* The server is up, no request in flight, the tables are empty.
Started ==
  /\ Idle
  /\ Serving
  /\ subscribers = <<>>
  /\ clock = 0
  /\ earlier = {}

Init ==
  /\ Started
  /\ NoFormat
  /\ Provisioned({})
  /\ mode = "honest"
  /\ registry = <<>>
  /\ mirror = <<>>
  /\ prev = NoPrev
  /\ allClean = TRUE

\* src/index.js:294  const processedTxs = new Set(): the handler starts
\* from an empty set, whatever the batches before it have seen.
InitialSeenPersisted(seenBefore) == seenBefore
InitialSeen(seenBefore) == {}

\* POST /balances arrives: lines 290-294.
BalancesReceive ==
  /\ pc = "idle"
  /\ \E batch \in Batches : balanceChanges' = batch
  /\ processedTxs' = InitialSeen(earlier)
  /\ req' = "balances"
  /\ pc' = "bal_loop"
  /\ UNCHANGED <<resp, subscribers, clock, chat, i, subs, j, alerts, sends, sendFailed, raised, setupVars, otherVars>>

\* One iteration of the for-of loop up to its first await: lines 296-306,
\* entering broadcastToSubscribers (line 346).  formatBalanceMessage runs
\* synchronously; what it throws leaves the handler, which has no try/catch.
BalancesEvent ==
  /\ pc = "bal_loop"
  /\ i <= Len(balanceChanges)
  /\ LET change == balanceChanges[i] IN
       IF IsDuplicate(processedTxs, change)
       THEN /\ i' = i + 1
            /\ UNCHANGED <<pc, resp, raised, processedTxs, alerts>>
       ELSE /\ processedTxs' = SeenAfter(processedTxs, change)
            /\ IF BelowThreshold(change)
               THEN /\ i' = i + 1
                    /\ UNCHANGED <<pc, resp, raised, alerts>>
               ELSE IF FormatThrows(change)
               THEN /\ raised' = "format"
                    /\ resp' = Unhandled
                    /\ pc' = "done"
                    /\ UNCHANGED <<i, alerts>>
               ELSE /\ alerts' = Append(alerts, i)
                    /\ pc' = "bal_subs"
                    /\ UNCHANGED <<i, resp, raised>>
  /\ UNCHANGED <<req, subscribers, clock, chat, balanceChanges, subs, j, sends, sendFailed, setupVars, otherVars>>

\* getAllSubscribers() resolves: rows.map(r => r.chat_id), lines 322-325, 346.
BalancesSubscribers ==
  /\ pc = "bal_subs"
  /\ subs' = [n \in 1..Len(subscribers) |-> subscribers[n].chat_id]
  /\ j' = 1
  /\ pc' = "bal_send"
  /\ UNCHANGED <<req, resp, subscribers, clock, chat, balanceChanges, i, processedTxs, alerts, sends, sendFailed, raised, setupVars, otherVars>>

\* One sendTelegramMessage of the broadcast settles: lines 328-343, 347-349.
\* The returned response.ok is discarded; a rejected fetch propagates out of
\* the handler, which has no try/catch.
BalancesSend ==
  /\ pc = "bal_send"
  /\ j <= Len(subs)
  /\ \E outcome \in FetchOutcomes :
       /\ sends' = Append(sends, [idx |-> i, chat |-> subs[j]])
       /\ sendFailed' = (sendFailed \/ outcome = "notOk")
       /\ IF outcome = "reject"
          THEN /\ pc' = "done"
               /\ resp' = Unhandled
               /\ raised' = "send"
               /\ UNCHANGED j
          ELSE /\ j' = j + 1
               /\ UNCHANGED <<pc, resp, raised>>
  /\ UNCHANGED <<req, subscribers, clock, chat, balanceChanges, i, processedTxs, subs, alerts, setupVars, otherVars>>

\* The broadcast loop is over: back to the for-of loop over the batch.
BalancesBroadcastDone ==
  /\ pc = "bal_send"
  /\ j > Len(subs)
  /\ i' = i + 1
  /\ pc' = "bal_loop"
  /\ UNCHANGED <<req, resp, subscribers, clock, chat, balanceChanges, processedTxs, subs, j, alerts, sends, sendFailed, raised, setupVars, otherVars>>

\* res.json({ ok: true, processed: processedTxs.size }): line 309.
BalancesRespond ==
  /\ pc = "bal_loop"
  /\ i > Len(balanceChanges)
  /\ resp' = [status |-> 200, processed |-> Cardinality(processedTxs)]
  /\ pc' = "done"
  /\ UNCHANGED <<req, subscribers, clock, chat, ingestVars, setupVars, otherVars>>

\* ------------------------------------------------- Telegram commands
\* POST /telegram/webhook with a /start message: lines 406-415.
TelegramStart ==
  /\ pc = "idle"
  /\ clock < MaxClock
  /\ \E c \in Chats : chat' = c
  /\ req' = "telegram"
  /\ pc' = "tg_add"
  /\ UNCHANGED <<resp, subscribers, clock, ingestVars, setupVars, otherVars>>

\* The chat id has a row in the table.
Subscribed(table, chatId) == \E n \in 1..Len(table) : table[n].chat_id = chatId

\* INSERT INTO subscribers (chat_id, subscribed_at) VALUES (...)
\* ON CONFLICT (chat_id) DO NOTHING: lines 315-319.
InsertSubscriberOverwriting(table, chatId, subscribedAt) ==
  IF Subscribed(table, chatId)
  THEN [n \in 1..Len(table) |->
          IF table[n].chat_id = chatId
          THEN [table[n] EXCEPT !.subscribed_at = subscribedAt] ELSE table[n]]
  ELSE Append(table, [chat_id |-> chatId, subscribed_at |-> subscribedAt])
InsertSubscriber(table, chatId, subscribedAt) ==
  IF Subscribed(table, chatId) THEN table
  ELSE Append(table, [chat_id |-> chatId, subscribed_at |-> subscribedAt])

\* addSubscriber: subscribedAt = new Date() and the INSERT, lines 313-320.
AddSubscriber ==
  /\ pc = "tg_add"
  /\ clock' = clock + 1
  /\ subscribers' = InsertSubscriber(subscribers, chat, clock + 1)
  /\ pc' = "tg_send"
  /\ UNCHANGED <<req, resp, chat, ingestVars, setupVars, otherVars>>

\* The welcome message settles and the handler answers: lines 416-434.  A
\* rejected fetch leaves the handler, which has no try/catch.
TelegramWelcome ==
  /\ pc = "tg_send"
  /\ \E outcome \in FetchOutcomes :
       IF outcome = "reject"
       THEN resp' = Unhandled /\ raised' = "send"
       ELSE resp' = [status |-> 200, processed |-> 0] /\ UNCHANGED raised
  /\ pc' = "done"
  /\ UNCHANGED <<req, subscribers, clock, chat, balanceChanges, i, processedTxs,
                 subs, j, alerts, sends, sendFailed, setupVars, otherVars>>

\* ------------------------------------------- remote webhook registry
Ids == 1..NumIds
\* The registry honours limit and offset, ignores offset (always answers
\* page 1), or answers any page at all.
Modes == {"honest", "ignoresOffset", "arbitrary"}
Min(a, b) == IF a <= b THEN a ELSE b
\* A registry holding n webhooks.
RegistryOf(n) == [w \in 1..n |-> [id |-> w, active |-> w % 2 = 1]]
\* GET /webhooks?limit=lim&offset=off answered by a registry that honours
\* both: line 457.
PageAt(reg, lim, off) == SubSeq(reg, off + 1, Min(off + lim, Len(reg)))
\* What an unreliable registry draws from: any id, and the first webhook in
\* both states (its flag may change between two pages).
ArbitraryWebhooks ==
  [id : Ids, active : {TRUE}] \cup {[id |-> 1, active |-> FALSE]}
ArbitraryPages == SeqsUpTo(ArbitraryWebhooks, limit)
\* The pages a 2xx answer of the registry may carry (data.webhooks || []).
Pages(m, reg, off) ==
  CASE m = "honest" -> {PageAt(reg, limit, off)}
    [] m = "ignoresOffset" -> {PageAt(reg, limit, 0)}
    [] OTHER -> ArbitraryPages

\* ----------------------------------------------------- listAllWebhooks
\* src/index.js:455  while (iterations < maxIterations)
MayRequestOffByOne(it) == it <= maxIterations
MayRequest(it) == it < maxIterations

\* src/index.js:476-482: the webhooks of the page whose id is not in seenIds,
\* each id once, in page order.
RECURSIVE NewWebhooksNoDedup(_, _)
NewWebhooksNoDedup(page, seen) ==
  IF page = <<>> THEN <<>>
  ELSE IF Head(page).id \in seen THEN NewWebhooksNoDedup(Tail(page), seen)
       ELSE <<Head(page)>> \o NewWebhooksNoDedup(Tail(page), seen)
RECURSIVE NewWebhooks(_, _)
NewWebhooks(page, seen) ==
  IF page = <<>> THEN <<>>
  ELSE IF Head(page).id \in seen THEN NewWebhooks(Tail(page), seen)
       ELSE <<Head(page)>> \o NewWebhooks(Tail(page), seen \cup {Head(page).id})

\* src/index.js:487  if (newCount === 0) break
NoNewIdsIgnored(newCount) == FALSE
NoNewIds(newCount) == newCount = 0

\* src/index.js:492  if (webhooks.length < limit) break
LastPageInclusive(page) == Len(page) <= limit
LastPage(page) == Len(page) < limit

\* src/index.js:496  offset += limit
NextOffsetSkipping(off) == off + limit + 1
NextOffset(off) == off + limit

\* src/index.js:500  if (iterations >= maxIterations) console.warn(...)
WarnsMax(it) == it >= maxIterations

\* History: the ids of a page appended to the first-seen order.
RECURSIVE ExtendFirstSeen(_, _)
ExtendFirstSeen(order, page) ==
  IF page = <<>> THEN order
  ELSE ExtendFirstSeen(
         IF \E n \in 1..Len(order) : order[n] = Head(page).id
         THEN order ELSE Append(order, Head(page).id),
         Tail(page))
Elements(seq) == {seq[n] : n \in 1..Len(seq)}
IdsOf(seq) == [n \in 1..Len(seq) |-> seq[n].id]

\* The loop test and, when it passes, the page request: lines 455-460.
ListHead ==
  /\ pc = "list_head"
  /\ IF MayRequest(iterations)
     THEN /\ iterations' = iterations + 1
          /\ requests' = requests + 1
          /\ pc' = "list_fetch"
     ELSE /\ pc' = "list_exit"
          /\ UNCHANGED <<iterations, requests>>
  /\ UNCHANGED <<req, resp, subscribers, clock, chat, ingestVars, remoteVars,
                 allWebhooks, seenIds, offset, hitMax, listStatus, failure,
                 served, firstSeen, mirror, runVars, prev, scopeVars, otherVars>>

\* The page request settles and the rest of the loop body runs up to the
\* delay: lines 458-497.
ListPage ==
  /\ pc = "list_fetch"
  /\ \E outcome \in FetchOutcomes :
       \/ /\ outcome = "reject"
          /\ failure' = "reject"
          /\ clean' = FALSE
          /\ listStatus' = "thrown"
          /\ pc' = "throwing"
          /\ UNCHANGED <<allWebhooks, seenIds, offset, served, firstSeen>>
       \/ /\ outcome = "notOk"
          /\ failure' = "notOk"
          /\ clean' = FALSE
          /\ pc' = "list_exit"
          /\ UNCHANGED <<allWebhooks, seenIds, offset, listStatus, served, firstSeen>>
       \/ /\ outcome = "ok"
          /\ \E webhooks \in Pages(mode, registry, offset) :
               LET new == NewWebhooks(webhooks, seenIds) IN
               /\ served' = served \cup Elements(webhooks)
               /\ firstSeen' = ExtendFirstSeen(firstSeen, webhooks)
               /\ IF Len(webhooks) = 0
                  THEN /\ pc' = "list_exit"
                       /\ UNCHANGED <<allWebhooks, seenIds, offset>>
                  ELSE /\ allWebhooks' = allWebhooks \o new
                       /\ seenIds' = seenIds \cup {new[n].id : n \in 1..Len(new)}
                       /\ IF NoNewIds(Len(new)) \/ LastPage(webhooks)
                          THEN /\ pc' = "list_exit"
                               /\ UNCHANGED offset
                          ELSE /\ offset' = NextOffset(offset)
                               /\ pc' = "list_sleep"
          /\ UNCHANGED <<failure, listStatus, clean>>
  /\ UNCHANGED <<req, resp, subscribers, clock, chat, ingestVars, remoteVars,
                 iterations, hitMax, requests, mirror, prev, scopeVars,
                 k, changed, skipped, failed, patches, succeeded,
                 touchedRemote, touchedMirror, otherVars>>

\* await setTimeout(100) is over: line 497.
ListSleep ==
  /\ pc = "list_sleep"
  /\ pc' = "list_head"
  /\ UNCHANGED <<req, resp, subscribers, clock, chat, ingestVars, setupVars, otherVars>>

\* After the loop: the warning and return allWebhooks, lines 500-504.
ListReturn ==
  /\ pc = "list_exit"
  /\ hitMax' = WarnsMax(iterations)
  /\ listStatus' = "returned"
  /\ pc' = "listed"
  /\ UNCHANGED <<req, resp, subscribers, clock, chat, ingestVars, remoteVars,
                 allWebhooks, seenIds, offset, iterations, failure, requests,
                 served, firstSeen, mirror, runVars, prev, scopeVars, otherVars>>

\* ------------------------------------------------ /setup/view-webhooks
\* GET /setup/view-webhooks arrives and calls listAllWebhooks: lines 522-524,
\* 448-453.
ViewReceive ==
  /\ pc = "idle"
  /\ req' = "view"
  /\ listStatus' = "running"
  /\ pc' = "list_head"
  /\ UNCHANGED <<resp, subscribers, clock, chat, ingestVars, remoteVars,
                 allWebhooks, seenIds, offset, iterations, hitMax, failure,
                 requests, served, firstSeen, mirror, runVars, prev, scopeVars, otherVars>>

\* res.json({ ok, total, active, inactive, webhooks }): lines 525-527.
ViewRespond ==
  /\ pc = "listed"
  /\ req = "view"
  /\ LET active == Cardinality({n \in 1..Len(allWebhooks) : allWebhooks[n].active}) IN
       resp' = [status |-> 200, total |-> Len(allWebhooks), active |-> active,
                inactive |-> Len(allWebhooks) - active, webhooks |-> allWebhooks]
  /\ pc' = "done"
  /\ UNCHANGED <<req, subscribers, clock, chat, ingestVars, setupVars, otherVars>>

\* ------------------------- /setup/pause-webhooks, /setup/resume-webhooks
Lifecycle == {"pause", "resume"}

\* The flag a run asks the registry for: updateWebhookStatus(webhook.id,
\* false) in pause (line 550), (webhook.id, true) in resume (line 587).
PatchValueCopied(kind) == FALSE
PatchValue(kind) == kind = "resume"

\* The skip test: if (!webhook.active) in pause (line 545),
\* if (webhook.active) in resume (line 582).
AlreadyThereNever(webhook, kind) == FALSE
AlreadyThere(webhook, kind) ==
  IF kind = "pause" THEN ~webhook.active ELSE webhook.active

\* The registry after it applied PATCH /webhooks/{id} {active}: lines 508-519.
SetRemote(reg, id, value) ==
  [n \in 1..Len(reg) |->
     IF reg[n].id = id THEN [reg[n] EXCEPT !.active = value] ELSE reg[n]]

\* UPDATE webhooks SET active = 0 WHERE id (line 554), SET active = 1
\* (line 591): no row, no change.
MirrorAfterAlwaysActive(m, id, kind) ==
  IF id \in DOMAIN m THEN [m EXCEPT ![id] = 1] ELSE m
MirrorAfter(m, id, kind) ==
  IF id \in DOMAIN m
  THEN [m EXCEPT ![id] = IF kind = "resume" THEN 1 ELSE 0]
  ELSE m

\* Where the handler goes after updateWebhookStatus returned false: the
\* else branch (failed++, lines 555-558, 592-595, 621-624) and then the
\* delay, without any store statement.
AfterFailedPatchWrites(kind) ==
  IF kind = "resumeLocal" THEN "local_mirror" ELSE "mirror"
AfterFailedPatch(kind) ==
  IF kind = "resumeLocal" THEN "local_sleep" ELSE "item_sleep"

\* failed++ in that else branch: lines 556, 593, 622.
FailedAfterUncounted(n) == n
FailedAfter(n) == n + 1

\* POST /setup/pause-webhooks arrives and calls listAllWebhooks: lines
\* 533-536.
PauseReceive ==
  /\ pc = "idle"
  /\ req' = "pause"
  /\ listStatus' = "running"
  /\ pc' = "list_head"
  /\ UNCHANGED <<resp, subscribers, clock, chat, ingestVars, remoteVars,
                 allWebhooks, seenIds, offset, iterations, hitMax, failure,
                 requests, served, firstSeen, mirror, runVars, prev, scopeVars, otherVars>>

\* POST /setup/resume-webhooks arrives and calls listAllWebhooks: lines
\* 570-573.
ResumeReceive ==
  /\ pc = "idle"
  /\ req' = "resume"
  /\ listStatus' = "running"
  /\ pc' = "list_head"
  /\ UNCHANGED <<resp, subscribers, clock, chat, ingestVars, remoteVars,
                 allWebhooks, seenIds, offset, iterations, hitMax, failure,
                 requests, served, firstSeen, mirror, runVars, prev, scopeVars, otherVars>>

\* One iteration of the for-of loop up to its first await: the skip test and
\* the PATCH request, lines 543-550 and 580-587.
SetActiveItem ==
  /\ pc = "listed"
  /\ req \in Lifecycle
  /\ k <= Len(allWebhooks)
  /\ LET webhook == allWebhooks[k] IN
       IF AlreadyThere(webhook, req)
       THEN /\ skipped' = skipped + 1
            /\ k' = k + 1
            /\ UNCHANGED <<pc, patches>>
       ELSE /\ patches' = Append(patches, webhook.id)
            /\ pc' = "patch"
            /\ UNCHANGED <<skipped, k>>
  /\ UNCHANGED <<req, resp, subscribers, clock, chat, ingestVars, remoteVars, listVars,
                 mirror, changed, failed, succeeded, clean, touchedRemote,
                 touchedMirror, prev, scopeVars, otherVars>>

\* updateWebhookStatus settles: lines 508-519, and the counting of lines
\* 551-552, 556-557 (588-589, 593-594).  A 2xx answer means the registry
\* applied the flag; a rejected fetch may have reached the registry or not,
\* and leaves the handler through its catch.
PatchSettles ==
  /\ pc = "patch"
  /\ LET id == allWebhooks[k].id
         applied == SetRemote(registry, id, PatchValue(req))
     IN \E outcome \in FetchOutcomes :
          \/ /\ outcome = "ok"
             /\ registry' = applied
             /\ changed' = changed + 1
             /\ succeeded' = succeeded \cup {id}
             /\ pc' = "mirror"
             /\ UNCHANGED <<failed, clean>>
          \/ /\ outcome = "notOk"
             /\ failed' = FailedAfter(failed)
             /\ clean' = FALSE
             /\ pc' = AfterFailedPatch(req)
             /\ UNCHANGED <<registry, changed, succeeded>>
          \/ /\ outcome = "reject"
             /\ \E reached \in BOOLEAN :
                  registry' = IF reached THEN applied ELSE registry
             /\ clean' = FALSE
             /\ pc' = "throwing"
             /\ UNCHANGED <<failed, changed, succeeded>>
  /\ touchedRemote' = (touchedRemote \/ registry' # registry)
  /\ UNCHANGED <<req, resp, subscribers, clock, chat, ingestVars, mode, listVars,
                 mirror, k, skipped, patches, touchedMirror, prev, scopeVars, otherVars>>

\* The UPDATE of the mirror row resolves: lines 554, 591.
MirrorUpdate ==
  /\ pc = "mirror"
  /\ mirror' = MirrorAfter(mirror, allWebhooks[k].id, req)
  /\ touchedMirror' = (touchedMirror \/ mirror' # mirror)
  /\ pc' = "item_sleep"
  /\ UNCHANGED <<req, resp, subscribers, clock, chat, ingestVars, remoteVars, listVars,
                 k, changed, skipped, failed, patches, succeeded, clean,
                 touchedRemote, prev, scopeVars, otherVars>>

\* await setTimeout(100) is over: lines 560, 597.
ItemSleep ==
  /\ pc = "item_sleep"
  /\ k' = k + 1
  /\ pc' = "listed"
  /\ UNCHANGED <<req, resp, subscribers, clock, chat, ingestVars, remoteVars, listVars,
                 mirror, changed, skipped, failed, patches, succeeded, clean,
                 touchedRemote, touchedMirror, prev, scopeVars, otherVars>>

\* res.json({ ok, paused | resumed, skipped, failed, total }): lines 563, 600.
SetActiveRespond ==
  /\ pc = "listed"
  /\ req \in Lifecycle
  /\ k > Len(allWebhooks)
  /\ resp' = [status |-> 200, changed |-> changed, skipped |-> skipped,
              failed |-> failed, total |-> Len(allWebhooks)]
  /\ pc' = "done"
  /\ UNCHANGED <<req, subscribers, clock, chat, ingestVars, setupVars, otherVars>>

\* --------------------------------------- /setup/resume-local-webhooks
\* The requests that pause or resume webhooks, in either scope.
Runs == Lifecycle \cup {"resumeLocal"}

RECURSIVE Orderings(_)
Orderings(S) ==
  IF S = {} THEN {<<>>}
  ELSE UNION {{<<x>> \o rest : rest \in Orderings(S \ {x})} : x \in S}

\* const localWebhooks = await sql`SELECT id FROM webhooks` (line 610): the
\* ids of the mirror rows, in whatever order the store returns them.
LocalRowsAnyId(m) == Orderings(Ids)
LocalRows(m) == Orderings(DOMAIN m)

\* POST /setup/resume-local-webhooks arrives and reads the mirror: lines
\* 608-614.
ResumeLocalReceive ==
  /\ pc = "idle"
  /\ req' = "resumeLocal"
  /\ \E rows \in LocalRows(mirror) : localWebhooks' = rows
  /\ pc' = "local_loop"
  /\ UNCHANGED <<resp, subscribers, clock, chat, ingestVars, remoteVars, listVars,
                 mirror, runVars, prev, allClean, otherVars>>

\* One iteration of the for-of loop up to its await: the PATCH request,
\* lines 616-617.
LocalItem ==
  /\ pc = "local_loop"
  /\ k <= Len(localWebhooks)
  /\ patches' = Append(patches, localWebhooks[k])
  /\ pc' = "local_patch"
  /\ UNCHANGED <<req, resp, subscribers, clock, chat, ingestVars, remoteVars, listVars,
                 mirror, k, changed, skipped, failed, succeeded, clean,
                 touchedRemote, touchedMirror, prev, scopeVars, otherVars>>

\* updateWebhookStatus(webhook.id, true) settles: lines 508-519, 617-619,
\* 622-623.
LocalPatchSettles ==
  /\ pc = "local_patch"
  /\ LET id == localWebhooks[k]
         applied == SetRemote(registry, id, TRUE)
     IN \E outcome \in FetchOutcomes :
          \/ /\ outcome = "ok"
             /\ registry' = applied
             /\ changed' = changed + 1
             /\ succeeded' = succeeded \cup {id}
             /\ pc' = "local_mirror"
             /\ UNCHANGED <<failed, clean>>
          \/ /\ outcome = "notOk"
             /\ failed' = FailedAfter(failed)
             /\ clean' = FALSE
             /\ pc' = AfterFailedPatch(req)
             /\ UNCHANGED <<registry, changed, succeeded>>
          \/ /\ outcome = "reject"
             /\ \E reached \in BOOLEAN :
                  registry' = IF reached THEN applied ELSE registry
             /\ clean' = FALSE
             /\ pc' = "throwing"
             /\ UNCHANGED <<failed, changed, succeeded>>
  /\ touchedRemote' = (touchedRemote \/ registry' # registry)
  /\ UNCHANGED <<req, resp, subscribers, clock, chat, ingestVars, mode, listVars,
                 mirror, k, skipped, patches, touchedMirror, prev, scopeVars, otherVars>>

\* UPDATE webhooks SET active = 1 WHERE id resolves: line 620.
LocalMirrorUpdate ==
  /\ pc = "local_mirror"
  /\ mirror' = MirrorAfter(mirror, localWebhooks[k], "resume")
  /\ touchedMirror' = (touchedMirror \/ mirror' # mirror)
  /\ pc' = "local_sleep"
  /\ UNCHANGED <<req, resp, subscribers, clock, chat, ingestVars, remoteVars, listVars,
                 k, changed, skipped, failed, patches, succeeded, clean,
                 touchedRemote, prev, scopeVars, otherVars>>

\* await setTimeout(100) is over: line 626.
LocalSleep ==
  /\ pc = "local_sleep"
  /\ k' = k + 1
  /\ pc' = "local_loop"
  /\ UNCHANGED <<req, resp, subscribers, clock, chat, ingestVars, remoteVars, listVars,
                 mirror, changed, skipped, failed, patches, succeeded, clean,
                 touchedRemote, touchedMirror, prev, scopeVars, otherVars>>

\* res.json({ ok, resumed, failed, total: localWebhooks.length }): line 629.
LocalRespond ==
  /\ pc = "local_loop"
  /\ k > Len(localWebhooks)
  /\ resp' = [status |-> 200, changed |-> changed, failed |-> failed,
              total |-> Len(localWebhooks)]
  /\ pc' = "done"
  /\ UNCHANGED <<req, subscribers, clock, chat, ingestVars, setupVars, otherVars>>

\* ------------------------------ /setup/fetch-holders, /setup/create-webhooks
\* map[blockchain.toLowerCase()] found nothing: the null of index.js.
Null == 0
\* A chain name both files map, one only index.js maps, one neither maps.
ChainNames == {"ethereum", "abstract", "dogechain"}
Entries == {"index.js", "main.js"}
\* const map of getChainId: src/index.js:73-137, src/main.js:63-71.
ChainMap(file) ==
  IF file = "index.js"
  THEN [name \in {"ethereum", "abstract"} |-> IF name = "ethereum" THEN 1 ELSE 2741]
  ELSE [name \in {"ethereum"} |-> 1]
\* return map[...] || null (src/index.js:138), || 1 (src/main.js:72).
getChainId(file, blockchain) ==
  IF blockchain \in DOMAIN ChainMap(file) THEN ChainMap(file)[blockchain]
  ELSE IF file = "index.js" THEN Null ELSE 1

\* One token contract, which tokens.csv may list under several chain names.
Addresses == {1}
\* A record of tokens.csv.
Tokens == [contract_address : Addresses, blockchain : ChainNames]
\* data.holders || []: no holder, or one holder that carries a
\* wallet_address or does not.
HolderLists == {<<>>, <<TRUE>>, <<FALSE>>}
\* holders.map((h) => h.wallet_address).filter(Boolean): line 247.
AddressesOf(holders) == SelectSeq(holders, LAMBDA h : h)

\* What the handlers of the other endpoints work on.
notProvision == <<subscribers, clock, chat, ingestVars, mode, listVars,
                  runVars, prev, scopeVars, formatVars, restVars>>

\* POST /setup/fetch-holders arrives; loadTokensFromCSV: lines 210-212,
\* 174-178.
FetchHoldersReceive ==
  /\ pc = "idle"
  /\ req' = "fetchHolders"
  /\ pc' = "fh_loop"
  /\ UNCHANGED <<resp, registry, mirror, notProvision, provisionTables,
                 provisionLocals>>

\* One iteration of the for-of loop up to its first await: getChainId, the
\* skip of an unsupported chain, and the holder request, lines 180-186.
FetchHoldersToken ==
  /\ pc = "fh_loop"
  /\ tk <= Len(tokens)
  /\ LET chainId == getChainId(entry, tokens[tk].blockchain) IN
       IF chainId = Null
       THEN /\ tk' = tk + 1
            /\ UNCHANGED <<pc, holderRequests>>
       ELSE /\ holderRequests' =
                 Append(holderRequests, [token |-> tk, chainId |-> chainId])
            /\ pc' = "fh_fetch"
            /\ UNCHANGED tk
  /\ UNCHANGED <<req, resp, registry, mirror, notProvision, provisionTables,
                 totalHolders, holderRows, rw, webhookIds>>

\* fetchTokenHolders settles and, when it brought holders, the upsert of
\* the top_holders row resolves: lines 157-171, 188-200.
FetchHoldersSettles ==
  /\ pc = "fh_fetch"
  /\ LET pair == <<tokens[tk].contract_address, holderRequests[Len(holderRequests)].chainId>> IN
     \E outcome \in FetchOutcomes :
       \/ /\ outcome = "reject"
          /\ pc' = "throwing"
          /\ UNCHANGED <<topHolders, totalHolders>>
       \/ /\ outcome = "notOk"
          /\ pc' = "fh_sleep"
          /\ UNCHANGED <<topHolders, totalHolders>>
       \/ /\ outcome = "ok"
          /\ \E holders \in HolderLists :
               IF Len(holders) > 0
               THEN /\ topHolders' =
                         [q \in DOMAIN topHolders \cup {pair} |->
                            IF q = pair THEN holders ELSE topHolders[q]]
                    /\ totalHolders' = totalHolders + Len(holders)
               ELSE UNCHANGED <<topHolders, totalHolders>>
          /\ pc' = "fh_sleep"
  /\ UNCHANGED <<req, resp, registry, mirror, notProvision, entry, tokens,
                 mirrorKey, remoteKey, tk, holderRequests, holderRows, rw,
                 webhookIds>>

\* await setTimeout(250) is over: line 203.
FetchHoldersSleep ==
  /\ pc = "fh_sleep"
  /\ tk' = tk + 1
  /\ pc' = "fh_loop"
  /\ UNCHANGED <<req, resp, registry, mirror, notProvision, provisionTables,
                 holderRequests, totalHolders, holderRows, rw, webhookIds>>

\* res.json({ ok, totalHolders, tokensProcessed }): lines 206, 213.
FetchHoldersRespond ==
  /\ pc = "fh_loop"
  /\ tk > Len(tokens)
  /\ resp' = [status |-> 200, totalHolders |-> totalHolders,
              tokensProcessed |-> Len(tokens)]
  /\ pc' = "done"
  /\ UNCHANGED <<req, registry, mirror, notProvision, provisionTables,
                 provisionLocals>>

\* POST /setup/create-webhooks arrives and SELECT * FROM top_holders
\* resolves: lines 277-279, 242-243.
CreateReceive ==
  /\ pc = "idle"
  /\ Len(registry) + Cardinality(DOMAIN topHolders) <= MaxCreated
  /\ req' = "createWebhooks"
  /\ \E order \in Orderings(DOMAIN topHolders) : holderRows' = order
  /\ pc' = "cw_loop"
  /\ UNCHANGED <<resp, registry, mirror, notProvision, provisionTables,
                 tk, holderRequests, totalHolders, rw, webhookIds>>

\* One iteration of the for-of loop up to its first await: the addresses of
\* the row and the createWebhook request, lines 245-258.
CreateRow ==
  /\ pc = "cw_loop"
  /\ rw <= Len(holderRows)
  /\ IF Len(AddressesOf(topHolders[holderRows[rw]])) = 0
     THEN /\ rw' = rw + 1
          /\ UNCHANGED pc
     ELSE /\ pc' = "cw_create"
          /\ UNCHANGED rw
  /\ UNCHANGED <<req, resp, registry, mirror, notProvision, provisionTables,
                 tk, holderRequests, totalHolders, holderRows, webhookIds>>

\* The registry after it registered a webhook for the pair: it assigns an
\* id of its own and starts the webhook active.
RegisteredId(reg) == Len(reg) + 1
Registered(reg) == Append(reg, [id |-> RegisteredId(reg), active |-> TRUE])

\* createWebhook settles: lines 220-238.  A non-2xx answer throws; a
\* rejected fetch may have reached the registry or not; both leave the
\* handler through its catch.  A 2xx answer carries the id of the webhook.
CreateSettles ==
  /\ pc = "cw_create"
  /\ LET pair == holderRows[rw]
         id == RegisteredId(registry)
     IN \E outcome \in FetchOutcomes :
          \/ /\ outcome = "ok"
             /\ registry' = Registered(registry)
             /\ remoteKey' = [w \in DOMAIN remoteKey \cup {id} |->
                                IF w = id THEN pair ELSE remoteKey[w]]
             /\ pc' = "cw_insert"
             /\ UNCHANGED clean
          \/ /\ outcome = "notOk"
             /\ clean' = FALSE
             /\ pc' = "throwing"
             /\ UNCHANGED <<registry, remoteKey>>
          \/ /\ outcome = "reject"
             /\ \E reached \in BOOLEAN :
                  IF reached
                  THEN /\ registry' = Registered(registry)
                       /\ remoteKey' = [w \in DOMAIN remoteKey \cup {id} |->
                                          IF w = id THEN pair ELSE remoteKey[w]]
                  ELSE UNCHANGED <<registry, remoteKey>>
             /\ clean' = FALSE
             /\ pc' = "throwing"
  /\ UNCHANGED <<req, resp, mirror, subscribers, clock, chat, ingestVars, mode,
                 listVars, k, changed, skipped, failed, patches, succeeded,
                 touchedRemote, touchedMirror, prev, scopeVars, formatVars,
                 restVars, entry, tokens, topHolders, mirrorKey, provisionLocals>>

\* INSERT INTO webhooks (id, token_address, chain_id) ... ON CONFLICT (id)
\* DO UPDATE resolves, and webhookIds.push: lines 260-268.  A new row gets
\* active = 1 by the column default.
CreateInsert ==
  /\ pc = "cw_insert"
  /\ LET id == registry[Len(registry)].id IN
       /\ mirror' = [w \in DOMAIN mirror \cup {id} |->
                       IF w \in DOMAIN mirror THEN mirror[w] ELSE 1]
       /\ mirrorKey' = [w \in DOMAIN mirrorKey \cup {id} |->
                          IF w = id THEN holderRows[rw] ELSE mirrorKey[w]]
       /\ webhookIds' = Append(webhookIds, id)
  /\ pc' = "cw_sleep"
  /\ UNCHANGED <<req, resp, registry, notProvision, entry, tokens, topHolders,
                 remoteKey, tk, holderRequests, totalHolders, holderRows, rw>>

\* await setTimeout(250) is over: line 270.
CreateSleep ==
  /\ pc = "cw_sleep"
  /\ rw' = rw + 1
  /\ pc' = "cw_loop"
  /\ UNCHANGED <<req, resp, registry, mirror, notProvision, provisionTables,
                 tk, holderRequests, totalHolders, holderRows, webhookIds>>

\* res.json({ ok, webhooksCreated, webhookIds }): lines 273, 280.
CreateRespond ==
  /\ pc = "cw_loop"
  /\ rw > Len(holderRows)
  /\ resp' = [status |-> 200, webhooksCreated |-> Len(webhookIds),
              webhookIds |-> webhookIds]
  /\ pc' = "done"
  /\ UNCHANGED <<req, registry, mirror, notProvision, provisionTables,
                 provisionLocals>>

\* catch (e) { res.status(500).json({ error: e.message }) } of a /setup
\* handler: lines 528-530, 564-567, 601-604, 630-633.
SetupCatch ==
  /\ pc = "throwing"
  /\ resp' = [status |-> 500]
  /\ pc' = "done"
  /\ UNCHANGED <<req, subscribers, clock, chat, ingestVars, setupVars, otherVars>>

\* The run that has just answered reported failed = 0 and, in the all-remote
\* scope, its walk met no failure and listed every id of the registry.
RunClean ==
  /\ resp.status = 200
  /\ resp.failed = 0
  /\ req \in Lifecycle =>
       /\ failure = "none"
       /\ Elements(IdsOf(allWebhooks)) = Elements(IdsOf(registry))

\* The response is out and the handler's locals go out of scope; the server
\* waits for the next request.
EndOfRequest ==
  /\ pc = "done"
  /\ pc' = "idle"
  /\ req' = "none"
  /\ resp' = NoResp
  /\ balanceChanges' = <<>>
  /\ i' = 1
  /\ processedTxs' = {}
  /\ subs' = <<>>
  /\ j' = 1
  /\ chat' = 0
  /\ alerts' = <<>>
  /\ sends' = <<>>
  /\ sendFailed' = FALSE
  /\ raised' = "none"
  /\ allWebhooks' = <<>>
  /\ seenIds' = {}
  /\ offset' = 0
  /\ iterations' = 0
  /\ hitMax' = FALSE
  /\ listStatus' = "none"
  /\ failure' = "none"
  /\ requests' = 0
  /\ served' = {}
  /\ firstSeen' = <<>>
  /\ k' = 1
  /\ changed' = 0
  /\ skipped' = 0
  /\ failed' = 0
  /\ patches' = <<>>
  /\ succeeded' = {}
  /\ clean' = TRUE
  /\ touchedRemote' = FALSE
  /\ touchedMirror' = FALSE
  /\ localWebhooks' = <<>>
  /\ prev' = IF req \in Runs
             THEN [kind |-> req, clean |-> clean /\ resp.status = 200]
             ELSE NoPrev
  /\ allClean' = IF req \in Runs THEN allClean /\ RunClean ELSE allClean
  /\ tk' = 1
  /\ holderRequests' = <<>>
  /\ totalHolders' = 0
  /\ holderRows' = <<>>
  /\ rw' = 1
  /\ webhookIds' = <<>>
  /\ UNCHANGED <<subscribers, clock, remoteVars, mirror, formatVars, provisionTables>>

RequestEnd ==
  /\ EndOfRequest
  /\ UNCHANGED restVars

\* The same, recording the hashes the batch has seen.
BatchEnd ==
  /\ EndOfRequest
  /\ earlier' = earlier \cup processedTxs
  /\ UNCHANGED <<startVars, overlapVars>>

Next ==
  \/ BalancesReceive
  \/ BalancesEvent
  \/ BalancesSubscribers
  \/ BalancesSend
  \/ BalancesBroadcastDone
  \/ BalancesRespond
  \/ TelegramStart
  \/ AddSubscriber
  \/ TelegramWelcome
  \/ RequestEnd

Spec == Init /\ [][Next]_vars

\* The setup flow on its own: either server file, started on empty tables
\* with some tokens.csv.
InitProvision ==
  /\ Started
  /\ NoFormat
  /\ mode = "honest"
  /\ registry = <<>>
  /\ mirror = <<>>
  /\ prev = NoPrev
  /\ allClean = TRUE
  /\ entry \in Entries
  /\ tokens \in SeqsUpTo(Tokens, MaxTokens)
  /\ topHolders = <<>>
  /\ mirrorKey = <<>>
  /\ remoteKey = <<>>

NextProvision ==
  \/ FetchHoldersReceive
  \/ FetchHoldersToken
  \/ FetchHoldersSettles
  \/ FetchHoldersSleep
  \/ FetchHoldersRespond
  \/ CreateReceive
  \/ CreateRow
  \/ CreateSettles
  \/ CreateInsert
  \/ CreateSleep
  \/ CreateRespond
  \/ SetupCatch
  \/ RequestEnd

SpecProvision == InitProvision /\ [][NextProvision]_vars

\* The process from its start, with any environment: the startup check,
\* and then the setup flow if the process serves.
InitStartup ==
  /\ process = "loading"
  /\ env \in SUBSET ConfigNames
  /\ Idle
  /\ subscribers = <<>>
  /\ clock = 0
  /\ earlier = {}
  /\ NoFormat
  /\ mode = "honest"
  /\ registry = <<>>
  /\ mirror = <<>>
  /\ prev = NoPrev
  /\ allClean = TRUE
  /\ entry \in Entries
  /\ tokens \in SeqsUpTo(Tokens, MaxTokens)
  /\ topHolders = <<>>
  /\ mirrorKey = <<>>
  /\ remoteKey = <<>>

NextStartup ==
  \/ StartupCheck
  \/ (process = "serving" /\ NextProvision)

SpecStartup == InitStartup /\ [][NextStartup]_vars

\* Successive /balances batches delivered to a server that has one
\* subscriber.
InitBatches ==
  /\ Idle
  /\ Serving
  /\ subscribers = <<[chat_id |-> 1, subscribed_at |-> 1]>>
  /\ clock = 1
  /\ earlier = {}
  /\ NoFormat
  /\ Provisioned({})
  /\ mode = "honest"
  /\ registry = <<>>
  /\ mirror = <<>>
  /\ prev = NoPrev
  /\ allClean = TRUE

NextBatches ==
  \/ BalancesReceive
  \/ BalancesEvent
  \/ BalancesSubscribers
  \/ BalancesSend
  \/ BalancesBroadcastDone
  \/ BalancesRespond
  \/ BatchEnd

SpecBatches == InitBatches /\ [][NextBatches]_vars

\* The formatter on its own: a server that has handled nothing, and calls
\* of formatBalanceMessage with changes around the tier edges.
InitFormat ==
  /\ Started
  /\ mode = "honest"
  /\ registry = <<>>
  /\ mirror = <<>>
  /\ prev = NoPrev
  /\ allClean = TRUE
  /\ Provisioned({})
  /\ fmtChange \in FormatInputs
  /\ message = NoMessage
  /\ fmtBefore = NoBefore

NextFormat ==
  \/ FormatCall
  \/ FormatAgain

SpecFormat == InitFormat /\ [][NextFormat]_vars

\* The listing on its own, against every registry behaviour: a registry that
\* honours limit and offset holds up to one webhook more than the walk can
\* reach.
MaxRegistry == limit * maxIterations + 1
InitList ==
  /\ Started
  /\ NoFormat
  /\ Provisioned({})
  /\ mirror = <<>>
  /\ prev = NoPrev
  /\ allClean = TRUE
  /\ mode \in Modes
  /\ registry \in IF mode = "arbitrary" THEN {<<>>}
                  ELSE {RegistryOf(n) : n \in 0..MaxRegistry}

NextList ==
  \/ ViewReceive
  \/ ListHead
  \/ ListPage
  \/ ListSleep
  \/ ListReturn
  \/ ViewRespond
  \/ SetupCatch
  \/ RequestEnd

SpecList == InitList /\ [][NextList]_vars

\* Pause and resume runs over a small registry.  At the start the mirror
\* holds the webhooks this system created, active on both sides (the
\* table's DEFAULT 1); the other webhooks of the registry are in any state.
InitLifecycle ==
  /\ Started
  /\ NoFormat
  /\ prev = NoPrev
  /\ allClean = TRUE
  /\ mode \in {"honest", "ignoresOffset"}
  /\ \E n \in 0..NumIds :
       \E rows \in SUBSET (1..n) :
         \E act \in [1..n -> BOOLEAN] :
           /\ \A id \in rows : act[id]
           /\ registry = [w \in 1..n |-> [id |-> w, active |-> act[w]]]
           /\ mirror = [id \in rows |-> 1]
           /\ Provisioned(rows)

NextLifecycle ==
  \/ PauseReceive
  \/ ResumeReceive
  \/ ListHead
  \/ ListPage
  \/ ListSleep
  \/ ListReturn
  \/ SetActiveItem
  \/ PatchSettles
  \/ MirrorUpdate
  \/ ItemSleep
  \/ SetActiveRespond
  \/ ResumeLocalReceive
  \/ LocalItem
  \/ LocalPatchSettles
  \/ LocalMirrorUpdate
  \/ LocalSleep
  \/ LocalRespond
  \/ SetupCatch
  \/ RequestEnd

SpecLifecycle == InitLifecycle /\ [][NextLifecycle]_vars

\* The awaits of the handlers: an outbound fetch, a store statement or a
\* timer.  A handler gives up the event loop there and nowhere else.
AwaitPoints ==
  {"bal_subs", "bal_send", "tg_add", "tg_send", "list_fetch", "list_sleep",
   "patch", "mirror", "item_sleep", "local_patch", "local_mirror",
   "local_sleep", "fh_fetch", "fh_sleep", "cw_create", "cw_insert", "cw_sleep"}

\* src/index.js:533, 570  app.post(path, async (req, res) => ...): Express
\* dispatches a request as soon as the event loop is free, and the event
\* loop is free whenever the running handler awaits or has answered.
MaySwitchAnywhere(at) == TRUE
MaySwitch(at) == at \in AwaitPoints \cup {"done"}

\* The event loop turns to the other handler: the running one stays
\* suspended at its await (or has answered), and the other one, dispatched
\* or suspended, is the one whose next step runs.
Switch ==
  /\ MaySwitch(pc)
  /\ parked.pc \notin {"idle", "done"}
  /\ parked' = Frame
  /\ pc' = parked.pc
  /\ req' = parked.req
  /\ resp' = parked.resp
  /\ chat' = parked.chat
  /\ balanceChanges' = parked.balanceChanges
  /\ i' = parked.i
  /\ processedTxs' = parked.processedTxs
  /\ subs' = parked.subs
  /\ j' = parked.j
  /\ alerts' = parked.alerts
  /\ sends' = parked.sends
  /\ sendFailed' = parked.sendFailed
  /\ raised' = parked.raised
  /\ allWebhooks' = parked.allWebhooks
  /\ seenIds' = parked.seenIds
  /\ offset' = parked.offset
  /\ iterations' = parked.iterations
  /\ hitMax' = parked.hitMax
  /\ listStatus' = parked.listStatus
  /\ failure' = parked.failure
  /\ requests' = parked.requests
  /\ served' = parked.served
  /\ firstSeen' = parked.firstSeen
  /\ k' = parked.k
  /\ changed' = parked.changed
  /\ skipped' = parked.skipped
  /\ failed' = parked.failed
  /\ patches' = parked.patches
  /\ succeeded' = parked.succeeded
  /\ clean' = parked.clean
  /\ touchedRemote' = parked.touchedRemote
  /\ touchedMirror' = parked.touchedMirror
  /\ localWebhooks' = parked.localWebhooks
  /\ tk' = parked.tk
  /\ holderRequests' = parked.holderRequests
  /\ totalHolders' = parked.totalHolders
  /\ holderRows' = parked.holderRows
  /\ rw' = parked.rw
  /\ webhookIds' = parked.webhookIds
  /\ UNCHANGED <<subscribers, clock, remoteVars, mirror, prev, allClean,
                 formatVars, provisionTables, batchVars, startVars>>

\* A pause-webhooks and a resume-webhooks request in flight together over
\* a small registry that paginates correctly, the tables as in the runs
\* one at a time: one handler was dispatched first, the other is
\* dispatched when the first awaits.
InitOverlap ==
  /\ req \in Lifecycle
  /\ parked = Dispatched(CHOOSE other \in Lifecycle : other # req)
  /\ pc = "list_head"
  /\ resp = NoResp
  /\ listStatus = "running"
  /\ chat = 0
  /\ balanceChanges = <<>>
  /\ i = 1
  /\ processedTxs = {}
  /\ subs = <<>>
  /\ j = 1
  /\ alerts = <<>>
  /\ sends = <<>>
  /\ sendFailed = FALSE
  /\ raised = "none"
  /\ allWebhooks = <<>>
  /\ seenIds = {}
  /\ offset = 0
  /\ iterations = 0
  /\ hitMax = FALSE
  /\ failure = "none"
  /\ requests = 0
  /\ served = {}
  /\ firstSeen = <<>>
  /\ k = 1
  /\ changed = 0
  /\ skipped = 0
  /\ failed = 0
  /\ patches = <<>>
  /\ succeeded = {}
  /\ clean = TRUE
  /\ touchedRemote = FALSE
  /\ touchedMirror = FALSE
  /\ localWebhooks = <<>>
  /\ tk = 1
  /\ holderRequests = <<>>
  /\ totalHolders = 0
  /\ holderRows = <<>>
  /\ rw = 1
  /\ webhookIds = <<>>
  /\ Serving
  /\ subscribers = <<>>
  /\ clock = 0
  /\ earlier = {}
  /\ NoFormat
  /\ prev = NoPrev
  /\ allClean = TRUE
  /\ mode = "honest"
  /\ \E n \in 0..NumIds :
       \E rows \in SUBSET (1..n) :
         \E act \in [1..n -> BOOLEAN] :
           /\ \A id \in rows : act[id]
           /\ registry = [w \in 1..n |-> [id |-> w, active |-> act[w]]]
           /\ mirror = [id \in rows |-> 1]
           /\ Provisioned(rows)

NextOverlap ==
  \/ ListHead
  \/ ListPage
  \/ ListSleep
  \/ ListReturn
  \/ SetActiveItem
  \/ PatchSettles
  \/ MirrorUpdate
  \/ ItemSleep
  \/ SetActiveRespond
  \/ SetupCatch
  \/ Switch

SpecOverlap == InitOverlap /\ [][NextOverlap]_vars

\* ------------------------------------------------------------ claims
\* The /balances handler has answered {ok: true, processed}.
BalancesAnswered == req = "balances" /\ pc = "done" /\ resp.status = 200
DistinctHashes(batch) == {batch[n].hash : n \in 1..Len(batch)}
\* Position n holds the first event of the batch with its hash.
FirstOfHash(batch, n) == \A m \in 1..(n - 1) : batch[m].hash # batch[n].hash
Alerted == {alerts[a] : a \in 1..Len(alerts)}

\* C1: whenever /balances answers, processed is the number of distinct
\* transaction hashes of the batch, whatever the materiality filter
\* dropped and whatever the sends reported.
C1_ProcessedIsDistinctHashes ==
  BalancesAnswered => resp.processed = Cardinality(DistinctHashes(balanceChanges))
\* Two hashes, one event dropped by the filter, one alert whose delivery
\* failed: processed is 2.
C1_Witness ==
  /\ BalancesAnswered
  /\ resp.processed = 2
  /\ Len(alerts) = 1
  /\ \E n \in 1..Len(balanceChanges) : BelowThreshold(balanceChanges[n])
  /\ sendFailed

\* C2: within one batch no two alerts carry the same transaction hash, and
\* an alerted event is the first event of the batch with its hash (a later
\* event with a seen hash is never alerted, also when the first one was
\* dropped by the filter).
C2_OneAlertPerHashFirstOnly ==
  req = "balances" =>
    /\ \A a, b \in 1..Len(alerts) :
         a # b => balanceChanges[alerts[a]].hash # balanceChanges[alerts[b]].hash
    /\ \A n \in Alerted : FirstOfHash(balanceChanges, n)
\* The first event of a hash is below the threshold, a later event with the
\* same hash is above it, and the batch ends without any alert.
C2_Witness ==
  /\ BalancesAnswered
  /\ Len(balanceChanges) = 2
  /\ balanceChanges[1].hash = balanceChanges[2].hash
  /\ BelowThreshold(balanceChanges[1])
  /\ balanceChanges[2].hasUsd /\ balanceChanges[2].usd > Threshold
  /\ alerts = <<>>

\* C3: when the batch is answered, an event that survived deduplication and
\* carries a valueDeltaUsd was handed to the broadcaster if and only if
\* that value is at least 100.
C3_AlertIffAtLeastThreshold ==
  BalancesAnswered =>
    \A n \in 1..Len(balanceChanges) :
      (FirstOfHash(balanceChanges, n) /\ balanceChanges[n].hasUsd) =>
        (n \in Alerted <=> balanceChanges[n].usd >= Threshold)
\* One event at exactly 100 that was alerted and sent to a subscriber,
\* next to one at 99 that was not.
C3_Witness ==
  /\ BalancesAnswered
  /\ Len(balanceChanges) = 2
  /\ balanceChanges[1].hasUsd /\ balanceChanges[1].usd = Threshold - 1
  /\ balanceChanges[2].hasUsd /\ balanceChanges[2].usd = Threshold
  /\ alerts = <<2>>
  /\ Len(sends) > 0

\* The walk is over: listAllWebhooks returned or threw.
WalkOver == listStatus \in {"returned", "thrown"}
WalkReturned == listStatus = "returned"
NoSharedId(seq) == \A a, b \in 1..Len(seq) : a # b => seq[a].id # seq[b].id

\* The walk can take its next step: the loop test, the settling of the
\* page request it waits for (ListPage has no other guard than being at
\* that await), the end of the delay, or the return.
WalkCanStep ==
  \/ ENABLED ListHead
  \/ pc = "list_fetch"
  \/ ENABLED ListSleep
  \/ ENABLED ListReturn
\* What is left of a walk: the requests the ceiling still allows, then the
\* rest of the current iteration, then the return.
WalkLeft ==
  CASE pc = "list_fetch" -> 3 * (maxIterations - iterations) + 2
    [] pc = "list_sleep" -> 3 * (maxIterations - iterations) + 1
    [] pc = "list_head" -> 3 * (maxIterations - iterations)
    [] pc = "list_exit" -> -1
    [] OTHER -> -2

\* C4: whatever the registry answers, a walk issues at most maxIterations
\* (50) page requests and ends: while listAllWebhooks runs it can always
\* take a step, every step brings it closer to its end (WalkLeft decreases
\* and is never below -2), and so it returns its list or throws.
C4_WalkTerminatesWithinCeiling ==
  /\ [](/\ requests <= maxIterations
        /\ iterations = requests
        /\ WalkLeft >= -2
        /\ (listStatus = "running" => WalkCanStep))
  /\ [][listStatus = "running" => WalkLeft' < WalkLeft]_vars
\* Every request up to the ceiling brought a full page of unseen ids and
\* the walk returned.
C4_Witness ==
  /\ WalkReturned
  /\ requests = maxIterations
  /\ Len(allWebhooks) = limit * maxIterations
  /\ hitMax

\* C5: against a registry that ignores offset, the walk issues at most two
\* page requests, never raises the ceiling warning, and a walk without
\* transport failure returns exactly page 1, each id once.
C5_IgnoredOffsetStopsAfterOneExtraPage ==
  mode = "ignoresOffset" =>
    /\ requests <= 2
    /\ ~hitMax
    /\ (WalkReturned /\ failure = "none") =>
         /\ Elements(allWebhooks) = Elements(PageAt(registry, limit, 0))
         /\ NoSharedId(allWebhooks)
\* Page 1 is full, the second request brought it again, and the walk
\* returned it after two requests.
C5_Witness ==
  /\ mode = "ignoresOffset"
  /\ WalkReturned
  /\ failure = "none"
  /\ requests = 2
  /\ Len(registry) > limit
  /\ Len(allWebhooks) = limit

\* C6: at every step of a walk, and in the list the endpoint answers with,
\* no two webhooks share an id, every webhook was served by a page request
\* of this walk, and the webhooks stand in the order in which the pages
\* first showed their ids.
C6_DedupServedFirstSeenOrder ==
  /\ NoSharedId(allWebhooks)
  /\ Elements(allWebhooks) \subseteq served
  /\ IdsOf(allWebhooks) = firstSeen
  /\ (req = "view" /\ pc = "done" /\ resp.status = 200) => resp.webhooks = allWebhooks
\* The pages served one id twice (with different active flags) and the walk
\* went over more than one page.
C6_Witness ==
  /\ WalkReturned
  /\ requests >= 2
  /\ Len(allWebhooks) >= 2
  /\ \E w, v \in served : w.id = v.id /\ w.active # v.active

\* C7: against a registry that honours limit and offset and holds at most
\* limit * maxIterations webhooks, a walk without transport failure returns
\* the registry: every webhook, once.
C7_HonestRegistryListedCompletely ==
  (mode = "honest" /\ WalkReturned /\ failure = "none"
     /\ Len(registry) <= limit * maxIterations) =>
    allWebhooks = registry
\* The registry holds exactly limit * maxIterations webhooks (a multiple of
\* the page size) and all of them were returned.
C7_Witness ==
  /\ mode = "honest"
  /\ WalkReturned
  /\ failure = "none"
  /\ Len(registry) = limit * maxIterations
  /\ allWebhooks = registry

\* C8: after a transport failure (non-2xx or rejected fetch) on a page
\* request that follows at least one page, the walk ends by returning the
\* webhooks accumulated so far.
C8_FailureReturnsAccumulated ==
  (failure # "none" /\ requests >= 2 /\ WalkOver) => WalkReturned

\* The webhook with this id was listed as active by the walk of the run.
ListedActive(id) ==
  \E n \in 1..Len(allWebhooks) : allWebhooks[n].id = id /\ allWebhooks[n].active
\* The run has answered its counts.
RunAnswered == req \in Lifecycle /\ pc = "done" /\ resp.status = 200

\* C9: throughout a resume-webhooks run, skipped counts exactly the
\* webhooks passed so far that were listed active, no PATCH is issued for
\* a webhook listed active, resumed counts exactly the webhooks whose PATCH
\* answered 2xx (all of them listed inactive), and once the store write
\* after such a PATCH is through, the mirror row of that id, if there is
\* one, has active = 1.
C9_ResumeSkipsActiveResumesInactive ==
  req = "resume" =>
    /\ skipped = Cardinality({n \in 1..Len(allWebhooks) : n < k /\ allWebhooks[n].active})
    /\ \A n \in 1..Len(patches) : ~ListedActive(patches[n])
    /\ succeeded \subseteq Elements(patches)
    /\ changed = Cardinality(succeeded)
    /\ \A id \in succeeded :
         (id \in DOMAIN mirror /\ ~(pc = "mirror" /\ allWebhooks[k].id = id)) =>
           mirror[id] = 1
\* A resume run answered: one webhook was skipped as active, another was
\* resumed and its mirror row went from 0 to 1.
C9_Witness ==
  /\ RunAnswered
  /\ req = "resume"
  /\ resp.skipped >= 1
  /\ resp.changed >= 1
  /\ touchedMirror
  /\ \E id \in succeeded : id \in DOMAIN mirror /\ mirror[id] = 1

\* C10: a pause (resume) run that directly follows a pause (resume) run,
\* with every remote call of both runs answered 2xx, answers 200, issues no
\* PATCH, reports 0 changed, 0 failed and skipped = total, and changes
\* neither the registry nor the mirror.
C10_SecondRunIsNoOp ==
  (req \in Lifecycle /\ pc = "done" /\ prev.kind = req /\ prev.clean /\ clean) =>
    /\ resp.status = 200
    /\ patches = <<>>
    /\ resp.changed = 0
    /\ resp.failed = 0
    /\ resp.skipped = resp.total
    /\ ~touchedRemote
    /\ ~touchedMirror
\* The second of two clean resume runs over a registry of several webhooks,
\* some of them mirrored, answered with everything skipped.
C10_Witness ==
  /\ RunAnswered
  /\ req = "resume"
  /\ prev = [kind |-> "resume", clean |-> TRUE]
  /\ clean
  /\ resp.total >= 2
  /\ resp.skipped = resp.total
  /\ DOMAIN mirror # {}

\* The webhooks the run iterates over: the listing, or the mirror rows.
RunItems == IF req = "resumeLocal" THEN localWebhooks ELSE allWebhooks
\* PATCH requests of the run that did not answer 2xx (a non-2xx answer or
\* a rejected fetch).
PatchesFailed == Len(patches) - Cardinality(succeeded)

\* C11: in a pause or resume run of either scope, a PATCH that fails at the
\* transport (non-2xx answer or rejected fetch) does not abort the run: the
\* run passes every webhook, answers 200, and counts the failure in failed.
C11_PatchFailureDoesNotAbort ==
  (req \in Runs /\ pc = "done" /\ PatchesFailed > 0) =>
    /\ resp.status = 200
    /\ resp.failed = PatchesFailed
    /\ k > Len(RunItems)

\* Every webhook held on both sides has the same active flag on both.
MirrorAgrees ==
  \A n \in 1..Len(registry) :
    registry[n].id \in DOMAIN mirror =>
      (registry[n].active <=> mirror[registry[n].id] = 1)

\* C12: between requests, and when a run has just answered, if every run
\* so far answered with failed = 0 over a complete enumeration then every
\* webhook held by both the mirror and the registry has the same active
\* flag on both sides, the webhooks a run skipped included.
C12_CleanRunsKeepMirrorEqualToRemote ==
  /\ (pc = "idle" /\ allClean) => MirrorAgrees
  /\ (pc = "done" /\ req \in Runs /\ allClean /\ RunClean) => MirrorAgrees
\* The second of two clean pause runs skipped a mirrored webhook whose row
\* the first run had set to 0.
C12_Witness ==
  /\ pc = "done"
  /\ req = "pause"
  /\ allClean
  /\ RunClean
  /\ prev = [kind |-> "pause", clean |-> TRUE]
  /\ resp.skipped >= 2
  /\ \E id \in DOMAIN mirror : mirror[id] = 0 /\ id \in Elements(IdsOf(allWebhooks))

\* C13: a resume-local-webhooks run issues no listing request; its PATCH
\* requests go to the ids of the mirror rows, one per row in the order
\* read, and to no other id; a PATCH answered 2xx activated the webhook on
\* both sides; and the run answers resumed = 2xx answers, failed = non-2xx
\* answers, total = number of mirror rows, having issued one PATCH per row.
C13_LocalScopeTouchesOnlyMirrorIds ==
  req = "resumeLocal" =>
    /\ requests = 0
    /\ listStatus = "none"
    /\ Elements(localWebhooks) = DOMAIN mirror
    /\ Len(localWebhooks) = Cardinality(DOMAIN mirror)
    /\ Len(patches) <= Len(localWebhooks)
    /\ patches = SubSeq(localWebhooks, 1, Len(patches))
    /\ changed = Cardinality(succeeded)
    /\ \A id \in succeeded :
         /\ \A n \in 1..Len(registry) : registry[n].id = id => registry[n].active
         /\ ~(pc = "local_mirror" /\ localWebhooks[k] = id) => mirror[id] = 1
    /\ (pc = "done" /\ resp.status = 200) =>
         /\ patches = localWebhooks
         /\ resp.total = Cardinality(DOMAIN mirror)
         /\ resp.changed = Cardinality(succeeded)
         /\ resp.failed = PatchesFailed
         /\ resp.changed + resp.failed = resp.total
\* A run over two mirror rows answered: one PATCH answered 2xx, one did
\* not, and a webhook of the registry that has no mirror row stayed
\* inactive.
C13_Witness ==
  /\ req = "resumeLocal"
  /\ pc = "done"
  /\ resp.status = 200
  /\ resp.total = 2
  /\ resp.changed = 1
  /\ resp.failed = 1
  /\ \E n \in 1..Len(registry) :
       registry[n].id \notin DOMAIN mirror /\ ~registry[n].active

\* C14: the subscribers table never holds a chat id twice, and a subscribe
\* command from a chat id that has a row leaves the table as it is: same
\* number of rows, same subscribed_at in every row.
C14_ResubscribeChangesNothing ==
  /\ [](\A a, b \in 1..Len(subscribers) :
          a # b => subscribers[a].chat_id # subscribers[b].chat_id)
  /\ [][(pc = "tg_add" /\ Subscribed(subscribers, chat)) =>
          subscribers' = subscribers]_vars
\* A chat subscribed at instant 1 sent /start again at a later instant: its
\* row still says 1 and the table still has one row.
C14_Witness ==
  /\ pc = "tg_send"
  /\ clock = 2
  /\ subscribers = <<[chat_id |-> chat, subscribed_at |-> 1]>>

\* Every event handed to the broadcaster was sent to every subscriber.
DeliveredToAll ==
  \A a \in 1..Len(alerts) :
    \A n \in 1..Len(subscribers) :
      \E m \in 1..Len(sends) :
        sends[m] = [idx |-> alerts[a], chat |-> subscribers[n].chat_id]

\* C15: a /balances batch in which a send to one subscriber failed (the
\* send answered non-2xx or its fetch rejected) still sends every alert to
\* every subscriber, passes every event of the batch and answers
\* {ok: true, processed} with processed the number of distinct hashes.
C15_SendFailureDoesNotStopBatch ==
  (req = "balances" /\ pc = "done" /\ (sendFailed \/ raised = "send")) =>
    /\ BalancesAnswered
    /\ i > Len(balanceChanges)
    /\ DeliveredToAll
    /\ resp.processed = Cardinality(DistinctHashes(balanceChanges))

\* C16: a /balances batch is answered {ok: true, processed} whatever
\* fields its events lack (USD value, subscribed address), unless a send
\* rejected: an event with a missing field stops neither the events after
\* it nor the answer.
C16_MissingFieldDoesNotStopBatch ==
  (req = "balances" /\ pc = "done" /\ raised # "send") =>
    /\ BalancesAnswered
    /\ i > Len(balanceChanges)
    /\ resp.processed = Cardinality(DistinctHashes(balanceChanges))

\* C17: a request to /balances or /telegram/webhook whose handling raised
\* a failure is answered with status 500 and the error message.
C17_RaisedFailureIsAnswered ==
  (pc = "done" /\ raised # "none") => resp.status = 500

\* C18: the emoji count of a formatted alert is 1 below 100,000, 2 from
\* 100,000, 3 from 500,000, 4 from 1,000,000 and 5 from 10,000,000 (each
\* bound inclusive), and of two alerts the one with the larger USD value
\* never has the smaller count.
C18_EmojiTiersInclusiveAndMonotonic ==
  message.status = "ok" =>
    LET usd == UsdValueOf(fmtChange) IN
    /\ message.emojiCount =
         CASE usd < 100000 -> 1
           [] usd >= 100000 /\ usd < 500000 -> 2
           [] usd >= 500000 /\ usd < 1000000 -> 3
           [] usd >= 1000000 /\ usd < 10000000 -> 4
           [] OTHER -> 5
    /\ fmtBefore # NoBefore =>
         /\ fmtBefore.usd <= usd => fmtBefore.emojiCount <= message.emojiCount
         /\ fmtBefore.usd >= usd => fmtBefore.emojiCount >= message.emojiCount
\* An alert of exactly 100,000 got 2 emoji right after one of 99,999 got 1.
C18_Witness ==
  /\ message.status = "ok"
  /\ fmtChange.hasUsd
  /\ fmtChange.usd = 100000
  /\ message.emojiCount = 2
  /\ fmtBefore = [usd |-> 99999, emojiCount |-> 1]

\* C19: a token of tokens.csv whose chain name is not in the chain map
\* gets no holder request, and every row of top_holders belongs to a token
\* of tokens.csv under the chain id its chain name is mapped to.
C19_UnmappedChainIsSkipped ==
  /\ \A n \in 1..Len(holderRequests) :
       tokens[holderRequests[n].token].blockchain \in DOMAIN ChainMap(entry)
  /\ \A pair \in DOMAIN topHolders :
       \E n \in 1..Len(tokens) :
         /\ tokens[n].contract_address = pair[1]
         /\ tokens[n].blockchain \in DOMAIN ChainMap(entry)
         /\ ChainMap(entry)[tokens[n].blockchain] = pair[2]

\* C20: no two rows of the webhooks table carry the same (token_address,
\* chain_id), and no two webhooks registered by createWebhook are for the
\* same pair.
C20_OneWebhookPerPair ==
  /\ \A a, b \in DOMAIN mirrorKey : a # b => mirrorKey[a] # mirrorKey[b]
  /\ \A a, b \in DOMAIN remoteKey : a # b => remoteKey[a] # remoteKey[b]

\* Events of the batch the loop has taken up: those before position i, and
\* the one at i once the loop has left its head.
TakenUp == {n \in 1..Len(balanceChanges) : n < i \/ (n = i /\ pc # "bal_loop")}

\* C23: the seen-hash set of a /balances call holds the hashes of the
\* events of this batch taken up so far and nothing from an earlier batch,
\* so an event is dropped as a duplicate only for an event before it in
\* the same batch: every event passed that is the first of its hash in
\* the batch and at or above the threshold was alerted, once, also when
\* an earlier batch carried the same hash.
C23_SeenHashesScopedToBatch ==
  req = "balances" =>
    /\ processedTxs = {balanceChanges[n].hash : n \in TakenUp}
    /\ \A n \in 1..Len(balanceChanges) :
         (n < i /\ FirstOfHash(balanceChanges, n) /\ ~BelowThreshold(balanceChanges[n]))
           => Cardinality({a \in 1..Len(alerts) : alerts[a] = n}) = 1
\* A batch answered after alerting an event whose hash an earlier batch
\* had seen.
C23_Witness ==
  /\ BalancesAnswered
  /\ \E n \in Alerted : balanceChanges[n].hash \in earlier
  /\ Len(sends) > 0

\* The walk left its loop through the loop test: every request, the last
\* one allowed included, brought a full page with new ids and moved offset.
StoppedByCeiling == iterations = maxIterations /\ offset = limit * maxIterations

\* C24: a walk that returned raised the "Hit max iterations" warning if and
\* only if the iteration ceiling stopped it; a walk whose last allowed
\* request ended it (empty page, no new ids, short page, non-2xx answer)
\* is not flagged.
C24_FlagIffStoppedByCeiling ==
  WalkReturned => (hitMax <=> StoppedByCeiling)

\* The webhook whose update the run is busy with.
CurrentId == IF req = "resumeLocal" THEN localWebhooks[k] ELSE allWebhooks[k].id
AtMirrorWrite == pc \in {"mirror", "local_mirror"}

\* C25: in a pause or resume run of either scope, the run issues at most
\* one PATCH per webhook id (no retry); the handler is at the store write
\* only for a webhook whose PATCH has just answered 2xx; and the mirror
\* changes only in that store write, in the row of that id and in no
\* other row, so a failed remote update leaves the mirror as it was.
C25_FailedUpdateLeavesMirror ==
  /\ [](req \in Runs =>
         /\ \A a, b \in 1..Len(patches) : a # b => patches[a] # patches[b]
         /\ AtMirrorWrite =>
              /\ CurrentId \in succeeded
              /\ patches[Len(patches)] = CurrentId)
  /\ [][mirror' # mirror =>
          /\ AtMirrorWrite
          /\ CurrentId \in succeeded
          /\ DOMAIN mirror' = DOMAIN mirror
          /\ \A id \in DOMAIN mirror : id # CurrentId => mirror'[id] = mirror[id]]_vars
\* A run answered after one PATCH failed and another succeeded: the row of
\* the failed one still holds what it held, the row of the other was
\* written.
C25_Witness ==
  /\ req \in Runs
  /\ pc = "done"
  /\ resp.status = 200
  /\ resp.failed = 1
  /\ touchedMirror
  /\ \E id \in DOMAIN mirror :
       /\ id \in Elements(patches)
       /\ id \notin succeeded
       /\ mirror[id] = (IF req = "pause" THEN 1 ELSE 0)

\* Positions of the run's webhooks by what became of them: found in the
\* target state, updated with a 2xx answer, or updated without one.
ItemsSkipped ==
  IF req = "resumeLocal" THEN {}
  ELSE {n \in 1..Len(allWebhooks) : AlreadyThere(allWebhooks[n], req)}
ItemId(n) == IF req = "resumeLocal" THEN localWebhooks[n] ELSE allWebhooks[n].id
ItemsChanged == {n \in 1..Len(RunItems) \ ItemsSkipped : ItemId(n) \in succeeded}
ItemsFailed ==
  {n \in 1..Len(RunItems) \ ItemsSkipped :
     ItemId(n) \in Elements(patches) /\ ItemId(n) \notin succeeded}

\* C26: a pause, resume or resume-local run that answers 200 reports
\* total = the number of webhooks it went over, changed = those updated
\* with a 2xx answer, skipped = those found in the target state (none in
\* resume-local, whose answer has no skipped), failed = those whose update
\* answered non-2xx; every webhook is in exactly one of the three, so
\* changed + skipped + failed = total; and during the run the three
\* counters add up to the number of webhooks passed.
C26_CountsPartitionTheWebhooks ==
  /\ (req \in Runs /\ pc \in {"listed", "local_loop"}) =>
       changed + skipped + failed = k - 1
  /\ (req \in Runs /\ pc = "done" /\ resp.status = 200) =>
       /\ resp.total = Len(RunItems)
       /\ resp.changed = Cardinality(ItemsChanged)
       /\ resp.failed = Cardinality(ItemsFailed)
       /\ skipped = Cardinality(ItemsSkipped)
       /\ req \in Lifecycle => resp.skipped = skipped
       /\ ItemsChanged \cup ItemsSkipped \cup ItemsFailed = 1..Len(RunItems)
       /\ ItemsChanged \cap ItemsFailed = {}
       /\ resp.changed + skipped + resp.failed = resp.total
\* A pause run over three webhooks answered with one paused, one skipped
\* and one failed.
C26_Witness ==
  /\ req = "pause"
  /\ pc = "done"
  /\ resp.status = 200
  /\ resp.total = 3
  /\ resp.changed = 1
  /\ resp.skipped = 1
  /\ resp.failed = 1

\* The sends of a batch that broadcasts each of its alerts, in batch
\* order, to every row of the subscribers table, in table order.
ExpectedSends ==
  LET rows == Len(subscribers) IN
  [m \in 1..(Len(alerts) * rows) |->
     [idx |-> alerts[((m - 1) \div rows) + 1],
      chat |-> subscribers[((m - 1) % rows) + 1].chat_id]]

\* C27: when the /balances handler is through with a batch, the sends of
\* the batch are exactly one send per subscriber for each alert handed to
\* the broadcaster (the events that survived deduplication and the
\* materiality filter): alert by alert in batch order, all sends of one
\* alert before the first send of the next.
C27_EachAlertOnceToEachSubscriber ==
  (req = "balances" /\ pc = "done") => sends = ExpectedSends

\* C28: the token amount of a formatted alert is amount_delta divided by
\* 10^d for the decimals d the asset carries, d = 0 included, and by 10^18
\* only when the asset carries no decimals.
C28_AmountScaledBySuppliedDecimals ==
  message.status = "ok" =>
    message.amount =
      Scaled(fmtChange.amountDelta,
             IF fmtChange.hasDecimals THEN fmtChange.decimals ELSE 18)

\* C29: a create-webhooks request in which the registration of one row's
\* webhook failed at the transport (non-2xx answer or rejected fetch)
\* still passes every row of top_holders and answers 200 with the
\* webhooks it created.
C29_CreateFailureIsIsolated ==
  (req = "createWebhooks" /\ pc = "done" /\ ~clean) =>
    /\ resp.status = 200
    /\ rw > Len(holderRows)
    /\ resp.webhookIds = webhookIds

\* C22: the process serves requests only with all four configuration
\* values set (SIM_API_KEY, TELEGRAM_BOT_TOKEN, WEBHOOK_BASE_URL,
\* DATABASE_URL); with any of them missing it never serves.
C22_ServesOnlyWithAllFourValues ==
  (process = "serving" \/ req # "none") => env = ConfigNames

\* The handler with this frame has taken its first step (a pause or resume
\* handler begins with a page request) and has not answered.
InFlight(frame) == frame.requests > 0 /\ frame.pc # "done"

C30_OverlappingRunsLeaveMirrorEqual ==
  (/\ pc = "done" /\ parked.pc = "done"
   /\ {req, parked.req} = Lifecycle
   /\ resp.status = 200 /\ parked.resp.status = 200
   /\ clean /\ parked.clean)
    => MirrorAgrees

====
